---- MODULE Spec2Model ----
(***************************************************************************)
(* A model of the network boot loader in src/src/main.rs.                  *)
(*                                                                         *)
(* The program is one sequential thread: main calls run, run calls the     *)
(* steps in order and returns at the first error.  The firmware (UEFI boot *)
(* services and the PXE Base Code protocol) is the environment: every      *)
(* firmware call has an outcome drawn from a small set.  `log` is a        *)
(* history variable that records every firmware call the program makes.    *)
(***************************************************************************)
EXTENDS Integers, Sequences, FiniteSets, TLC

(***************************************************************************)
(* Bounds.  Sizes are scaled down so that memory can be kept byte by byte: *)
(* PAGE_SIZE stands for uefi::boot::PAGE_SIZE (4096, used at main.rs:142), *)
(* KERNEL_MAX_SIZE for the kernel cap 32 << 20 (main.rs:48) and            *)
(* INITRD_MAX_SIZE for the ramdisk cap 1024 << 20 (main.rs:49).            *)
(***************************************************************************)
PAGE_SIZE == 2
KERNEL_MAX_SIZE == 1
INITRD_MAX_SIZE == 3
\* Handles the firmware may enumerate for the PXE Base Code protocol.
MaxHandles == 2
\* Pages of physical memory the firmware can hand out (page 0 is never given).
MemPages == 3
\* Distinct non-zero byte values a remote file may hold.
MaxByte == 2
\* Calls of perform_dhcp in the specification that drives it alone.
MaxCalls == 4

\* Largest size the remote server reports: one past the larger cap.
MaxReportedSize == INITRD_MAX_SIZE + 1

LINUX_EFI_INITRD_MEDIA_GUID == "5568e427-68fc-4f3d-ac74-ca555231cc68"
\* Some other identifier of the firmware's configuration table.
OTHER_GUID == "other-guid"
Guids == {LINUX_EFI_INITRD_MEDIA_GUID, OTHER_GUID}

KERNEL_OPTS == "init=/nix/store/pg9asbr6hx4515is7akx9ypygg28ama9-nixos-system-nixos-kexec-25.05.20251019.33c6dca/init loglevel=4 efi=debug"

\* Seconds main stalls before it returns an error.
STALL_SECS == 10

(***************************************************************************)
(* Status codes the firmware operations may report.                        *)
(***************************************************************************)
OpenErrors == {"ACCESS_DENIED"}
StartErrors == {"DEVICE_ERROR"}
DhcpErrors == {"TIMEOUT", "NO_RESPONSE"}
SizeErrors == {"NOT_FOUND", "TIMEOUT"}
ReadErrors == {"TFTP_ERROR", "BUFFER_TOO_SMALL"}
AllocErrors == {"OUT_OF_RESOURCES"}
InstallErrors == {"OUT_OF_RESOURCES"}
LoadErrors == {"LOAD_ERROR"}
StartImageErrors == {"SECURITY_VIOLATION"}

ServerAddrs == {"10.0.0.1"}
ClientAddr == "10.0.0.2"
NoAddr == "0.0.0.0"

\* Content of a page the program has not written.
Uninit == 0 - 1

VARIABLES
    pc,           \* position of the program
    err,          \* status run() failed with ("NONE": has not failed)
    failedStep,   \* step of run() that failed ("NONE": none)
    exitStatus,   \* status main returned ("NONE": has not returned)
    handles,      \* firmware: per enumerated handle, the result of opening it
    bc,           \* run: index of the opened BaseCode handle (0: none)
    mode,         \* firmware: mode of the BaseCode instance
    ip_addr,      \* run: local address
    server_ip,    \* run: boot server address
    kernel_data,  \* run: downloaded kernel
    initrd_data,  \* run: downloaded ramdisk
    initrd_base,  \* run: address of the staged ramdisk (0: none)
    kernel_base,  \* load_and_start_kernel_from_pages: staged kernel (0: none)
    mem,          \* physical memory, cell by cell
    allocated,    \* firmware: pages allocated as LOADER_DATA
    configTable,  \* firmware: configuration table, identifier -> pointer (0: none)
    image,        \* firmware: the image loaded by load_image
    log,          \* history: firmware calls made, in order
    calls         \* calls of perform_dhcp made by the driver specification

vars == <<pc, err, failedStep, exitStatus, handles, bc, mode, ip_addr, server_ip,
          kernel_data, initrd_data, initrd_base, kernel_base, mem, allocated,
          configTable, image, log, calls>>

progVars == <<ip_addr, server_ip, kernel_data, initrd_data, initrd_base, kernel_base>>
fwVars == <<handles, mode, mem, allocated, configTable, image>>

(***************************************************************************)
(* Helpers.                                                                *)
(***************************************************************************)
\* One firmware call: the step of run() that made it, the operation, its
\* arguments (a name and a number) and its result ("OK" or a status).
Op(step, op, arg, n, res) == [step |-> step, op |-> op, arg |-> arg, n |-> n, res |-> res]

Zeros(n) == [i \in 1..n |-> 0]

RECURSIVE SeqOf(_, _)
\* The sequences of length n over set S.
SeqOf(S, n) == IF n = 0 THEN {<<>>}
               ELSE {Append(s, x) : s \in SeqOf(S, n - 1), x \in S}

SeqsUpTo(S, n) == UNION {SeqOf(S, k) : k \in 0..n}

OpsOf(l, op) == {i \in 1..Len(l) : l[i].op = op}
Count(l, op) == Cardinality(OpsOf(l, op))

MemSize == (MemPages + 1) * PAGE_SIZE

(***************************************************************************)
(* Firmware outcomes: what each firmware call may answer.                  *)
(***************************************************************************)
\* locate_handle_buffer: the enumerated handles, in order, or an error.
\* With no handle the firmware reports NOT_FOUND (or an empty buffer).
LocateOutcomes(hs) ==
    IF Len(hs) = 0
    THEN {[res |-> "OK", buf |-> <<>>], [res |-> "NOT_FOUND", buf |-> <<>>]}
    ELSE {[res |-> "OK", buf |-> [i \in 1..Len(hs) |-> i]],
          [res |-> "OUT_OF_RESOURCES", buf |-> <<>>]}

StartOutcomes == {"OK"} \cup StartErrors

\* dhcp: success stores an acknowledgment naming a boot server.
DhcpOutcomes == {[res |-> "OK", si |-> s] : s \in ServerAddrs}
                \cup {[res |-> e, si |-> NoAddr] : e \in DhcpErrors}

\* tftp_get_file_size.
SizeOutcomes == {[res |-> "OK", size |-> n] : n \in 0..MaxReportedSize}
                \cup {[res |-> e, size |-> 0] : e \in SizeErrors}

\* The first n bytes of a remote file: non-zero bytes that differ from one
\* position to the next, and between the two files.
FileOffset(filename) == IF filename = "bzImage" THEN 0 ELSE 1
Contents(filename, n) == [i \in 1..n |-> ((i + FileOffset(filename)) % MaxByte) + 1]

\* tftp_read_file into a buffer of n bytes: an error, or the bytes the server
\* sent, which are at most n (the file may have shrunk since the size query).
ReadOutcomes(filename, n) == {[res |-> "OK", data |-> Contents(filename, k)] : k \in 0..n}
                   \cup {[res |-> e, data |-> <<>>] : e \in ReadErrors}

\* Pages at which a run of `pages` free pages starts (AllocateType::AnyPages).
FreeBases(al, pages) ==
    {p \in 1..MemPages : \A q \in p..(p + pages - 1) : q <= MemPages /\ q \notin al}

\* allocate_pages.
AllocOutcomes(al, pages) == {[res |-> "OK", page |-> p] : p \in FreeBases(al, pages)}
                            \cup {[res |-> e, page |-> 0] : e \in AllocErrors}

InstallOutcomes == {"OK"} \cup InstallErrors
LoadOutcomes == {"OK"} \cup LoadErrors
OpenImageOutcomes == {"OK"} \cup OpenErrors
\* start_image: the image takes over and never returns, or it returns.
StartImageOutcomes == {"NO_RETURN", "OK"} \cup StartImageErrors

(***************************************************************************)
(* The program's functions, each as a function of the state it reads and   *)
(* of the outcomes of the firmware calls it makes.  Each returns its       *)
(* result, the state it changes and the firmware calls it made (ops).      *)
(***************************************************************************)
RECURSIVE OpenLoopAbortsOnFailure(_, _, _)
\* A loop that gives up at the first handle that cannot be opened.
OpenLoopAbortsOnFailure(hs, buf, i) ==
    IF i > Len(buf) THEN [proto |-> 0, ops |-> <<>>]
    ELSE LET h == buf[i]
             o == Op("find", "open_protocol_exclusive", "BaseCode", h, hs[h])
         IN [proto |-> IF hs[h] = "OK" THEN h ELSE 0, ops |-> <<o>>]

RECURSIVE OpenLoop(_, _, _)
\* The for loop of find_pxebc_proto from the i-th handle of the buffer on.
OpenLoop(hs, buf, i) ==
    IF i > Len(buf) THEN [proto |-> 0, ops |-> <<>>]
    ELSE LET h == buf[i]
             o == Op("find", "open_protocol_exclusive", "BaseCode", h, hs[h])
         IN IF hs[h] = "OK"
            THEN [proto |-> h, ops |-> <<o>>]
            ELSE LET r == OpenLoop(hs, buf, i + 1)
                 IN [proto |-> r.proto, ops |-> <<o>> \o r.ops]

\* A find_pxebc_proto whose fall-through reports success.
find_pxebc_proto_no_fallthrough(hs, loc) ==
    LET o == Op("find", "locate_handle_buffer", "BaseCode", 0, loc.res)
        r == OpenLoop(hs, loc.buf, 1)
    IN [res |-> "OK", proto |-> r.proto, ops |-> <<o>> \o r.ops]

find_pxebc_proto(hs, loc) ==
    LET o == Op("find", "locate_handle_buffer", "BaseCode", 0, loc.res)
    IN IF loc.res # "OK"
       THEN [res |-> loc.res, proto |-> 0, ops |-> <<o>>]
       ELSE LET r == OpenLoop(hs, loc.buf, 1)
            IN [res |-> IF r.proto = 0 THEN "NOT_FOUND" ELSE "OK",
                proto |-> r.proto, ops |-> <<o>> \o r.ops]

\* A start_pxe_if_needed that starts the capability whatever its mode.
start_pxe_unconditional(m, o) ==
    LET op == Op("start", "start", "use_ipv6=false", 0, o)
    IN IF o = "OK"
       THEN [res |-> "OK", mode |-> [m EXCEPT !.started = TRUE], ops |-> <<op>>]
       ELSE [res |-> o, mode |-> m, ops |-> <<op>>]

start_pxe_if_needed(m, o) ==
    IF ~m.started
    THEN LET op == Op("start", "start", "use_ipv6=false", 0, o)
         IN IF o = "OK"
            THEN [res |-> "OK", mode |-> [m EXCEPT !.started = TRUE], ops |-> <<op>>]
            ELSE [res |-> o, mode |-> m, ops |-> <<op>>]
    ELSE [res |-> "OK", mode |-> m, ops |-> <<>>]

\* A perform_dhcp without the check of the acknowledgment.
perform_dhcp_unconditional(m, o) ==
    LET op == Op("dhcp", "dhcp", "sort_offers=false", 0, o.res)
    IN IF o.res = "OK"
       THEN [res |-> "OK",
             mode |-> [m EXCEPT !.dhcp_ack_received = TRUE,
                                !.dhcp_ack = [yi |-> ClientAddr, si |-> o.si]],
             ops |-> <<op>>]
       ELSE [res |-> o.res, mode |-> m, ops |-> <<op>>]

perform_dhcp(m, o) ==
    IF m.dhcp_ack_received
    THEN [res |-> "OK", mode |-> m, ops |-> <<>>]
    ELSE LET op == Op("dhcp", "dhcp", "sort_offers=false", 0, o.res)
         IN IF o.res = "OK"
            THEN [res |-> "OK",
                  mode |-> [m EXCEPT !.dhcp_ack_received = TRUE,
                                     !.dhcp_ack = [yi |-> ClientAddr, si |-> o.si]],
                  ops |-> <<op>>]
            ELSE [res |-> o.res, mode |-> m, ops |-> <<op>>]

get_network_config(m) == [ip_addr |-> m.dhcp_ack.yi, server_ip |-> m.dhcp_ack.si]

\* The number of values of usize on the narrowest UEFI target, where it is 32
\* bits wide: 2^32, four times the ramdisk cap of 1024 << 20.
USIZE_RANGE == 4 * INITRD_MAX_SIZE

\* A cast to an integer type that cannot hold the ramdisk cap.
AsNarrow(n) == n % INITRD_MAX_SIZE

\* `size as usize`: a u64 cast to usize keeps the low bits.
AsUsize(n) == n % USIZE_RANGE

\* A download_file that passes the size query's status on and reports every
\* failed transfer as NOT_FOUND.
download_file_statuses_swapped(step, filename, max_size_bytes, q, t) ==
    LET qop == Op(step, "tftp_get_file_size", filename, q.size, q.res)
    IN IF q.res # "OK"
       THEN [res |-> q.res, buf |-> <<>>, ops |-> <<qop>>]
       ELSE IF q.size > max_size_bytes
       THEN [res |-> "ABORTED", buf |-> <<>>, ops |-> <<qop>>]
       ELSE LET top == Op(step, "tftp_read_file", filename, q.size, t.res)
            IN IF t.res # "OK"
               THEN [res |-> "NOT_FOUND", buf |-> <<>>, ops |-> <<qop, top>>]
               ELSE [res |-> "OK",
                     buf |-> [i \in 1..q.size |->
                                 IF i <= Len(t.data) THEN t.data[i] ELSE 0],
                     ops |-> <<qop, top>>]

\* A download_file without the size guard.
download_file_unguarded(step, filename, max_size_bytes, q, t) ==
    LET qop == Op(step, "tftp_get_file_size", filename, q.size, q.res)
        top == Op(step, "tftp_read_file", filename, q.size, t.res)
    IN IF q.res # "OK"
       THEN [res |-> "NOT_FOUND", buf |-> <<>>, ops |-> <<qop>>]
       ELSE IF t.res # "OK"
       THEN [res |-> t.res, buf |-> <<>>, ops |-> <<qop, top>>]
       ELSE [res |-> "OK",
             buf |-> [i \in 1..q.size |-> IF i <= Len(t.data) THEN t.data[i] ELSE 0],
             ops |-> <<qop, top>>]

download_file(step, filename, max_size_bytes, q, t) ==
    LET qop == Op(step, "tftp_get_file_size", filename, q.size, q.res)
    IN IF q.res # "OK"
       THEN [res |-> "NOT_FOUND", buf |-> <<>>, ops |-> <<qop>>]
       ELSE IF q.size > max_size_bytes
       THEN [res |-> "ABORTED", buf |-> <<>>, ops |-> <<qop>>]
       ELSE LET buf == Zeros(AsUsize(q.size))
                top == Op(step, "tftp_read_file", filename, Len(buf), t.res)
            IN IF t.res # "OK"
               THEN [res |-> t.res, buf |-> <<>>, ops |-> <<qop, top>>]
               ELSE [res |-> "OK",
                     buf |-> [i \in 1..Len(buf) |->
                                 IF i <= Len(t.data) THEN t.data[i] ELSE buf[i]],
                     ops |-> <<qop, top>>]

\* A page count that always adds one page to the quotient.
div_floor_plus_one(a, b) == (a \div b) + 1

\* usize::div_ceil.
div_ceil(a, b) ==
    LET d == a \div b
        r == a % b
    IN IF r > 0 THEN d + 1 ELSE d

\* A copy that stops one byte short.
copy_one_short(m, src, dst, count) ==
    [a \in DOMAIN m |-> IF a >= dst /\ a < dst + count - 1 THEN src[a - dst + 1] ELSE m[a]]

\* core::ptr::copy_nonoverlapping(src, dst, count) on memory m.
copy_nonoverlapping(m, src, dst, count) ==
    [a \in DOMAIN m |-> IF a >= dst /\ a < dst + count THEN src[a - dst + 1] ELSE m[a]]

PagesOf(page, pages) == page..(page + pages - 1)

alloc_pages_and_copy(step, data, m, al, a) ==
    LET pages == div_ceil(Len(data), PAGE_SIZE)
        op == Op(step, "allocate_pages", "LOADER_DATA", pages, a.res)
    IN IF a.res # "OK"
       THEN [res |-> a.res, addr |-> 0, mem |-> m, allocated |-> al, ops |-> <<op>>]
       ELSE LET addr == a.page * PAGE_SIZE
            IN [res |-> "OK", addr |-> addr,
                mem |-> copy_nonoverlapping(m, data, addr, Len(data)),
                allocated |-> al \cup PagesOf(a.page, pages),
                ops |-> <<op>>]

\* A record written with its two fields in the other order.
WriteLinuxEfiInitrdSwapped(m, info_ptr, base, size) ==
    [m EXCEPT ![info_ptr] = size, ![info_ptr + 1] = base]

\* core::ptr::write of a LinuxEfiInitrd: two address-sized fields, base first.
WriteLinuxEfiInitrd(m, info_ptr, base, size) ==
    [m EXCEPT ![info_ptr] = base, ![info_ptr + 1] = size]

\* An install_initrd_config_table that allocates no page of its own and
\* writes the record at the start of the staged ramdisk.
install_initrd_config_table_in_place(base, size, m, al, tbl, a, i) ==
    LET iop == Op("ramdisk_registration", "install_configuration_table",
                  LINUX_EFI_INITRD_MEDIA_GUID, base, i)
    IN [res |-> i,
        mem |-> WriteLinuxEfiInitrd(m, base, base, size),
        allocated |-> al,
        table |-> IF i = "OK"
                  THEN [tbl EXCEPT ![LINUX_EFI_INITRD_MEDIA_GUID] = base]
                  ELSE tbl,
        ops |-> <<iop>>]

\* An install_initrd_config_table that gives the descriptor page back when
\* the firmware refuses the table entry.
install_initrd_config_table_rollback(base, size, m, al, tbl, a, i) ==
    LET aop == Op("ramdisk_registration", "allocate_pages", "LOADER_DATA", 1, a.res)
    IN IF a.res # "OK"
       THEN [res |-> a.res, mem |-> m, allocated |-> al, table |-> tbl, ops |-> <<aop>>]
       ELSE LET info_ptr == a.page * PAGE_SIZE
                iop == Op("ramdisk_registration", "install_configuration_table",
                          LINUX_EFI_INITRD_MEDIA_GUID, info_ptr, i)
            IN [res |-> i,
                mem |-> WriteLinuxEfiInitrd(m, info_ptr, base, size),
                allocated |-> IF i = "OK" THEN al \cup {a.page} ELSE al,
                table |-> IF i = "OK"
                          THEN [tbl EXCEPT ![LINUX_EFI_INITRD_MEDIA_GUID] = info_ptr]
                          ELSE tbl,
                ops |-> <<aop, iop>>]

install_initrd_config_table(base, size, m, al, tbl, a, i) ==
    LET aop == Op("ramdisk_registration", "allocate_pages", "LOADER_DATA", 1, a.res)
    IN IF a.res # "OK"
       THEN [res |-> a.res, mem |-> m, allocated |-> al, table |-> tbl, ops |-> <<aop>>]
       ELSE LET info_ptr == a.page * PAGE_SIZE
                iop == Op("ramdisk_registration", "install_configuration_table",
                          LINUX_EFI_INITRD_MEDIA_GUID, info_ptr, i)
            IN [res |-> i,
                mem |-> WriteLinuxEfiInitrd(m, info_ptr, base, size),
                allocated |-> al \cup {a.page},
                table |-> IF i = "OK"
                          THEN [tbl EXCEPT ![LINUX_EFI_INITRD_MEDIA_GUID] = info_ptr]
                          ELSE tbl,
                ops |-> <<aop, iop>>]

\* core::slice::from_raw_parts(base, len): the bytes of memory at base.
from_raw_parts(m, base, len) == [i \in 1..len |-> m[base + i - 1]]

(***************************************************************************)
(* The initial state: main has been entered, run() has not started.  The   *)
(* firmware holds up to MaxHandles BaseCode handles, each of which either  *)
(* opens or refuses exclusive access; the BaseCode instance may already    *)
(* have been started and may already hold a DHCP acknowledgment.           *)
(***************************************************************************)
HandleSets == SeqsUpTo({"OK"} \cup OpenErrors, MaxHandles)

Modes == {[started |-> s, dhcp_ack_received |-> FALSE,
           dhcp_ack |-> [yi |-> NoAddr, si |-> NoAddr]] : s \in BOOLEAN}
         \cup {[started |-> TRUE, dhcp_ack_received |-> TRUE,
                dhcp_ack |-> [yi |-> ClientAddr, si |-> a]] : a \in ServerAddrs}

NoImage == [loaded |-> FALSE, bytes |-> <<>>, options |-> "NONE"]

InitProgram ==
    /\ err = "NONE"
    /\ failedStep = "NONE"
    /\ exitStatus = "NONE"
    /\ ip_addr = NoAddr
    /\ server_ip = NoAddr
    /\ kernel_data = <<>>
    /\ initrd_data = <<>>
    /\ initrd_base = 0
    /\ kernel_base = 0
    /\ mem = [a \in 0..(MemSize - 1) |-> Uninit]
    /\ allocated = {}
    /\ configTable = [g \in Guids |-> 0]
    /\ image = NoImage
    /\ log = <<>>
    /\ calls = 0

Init ==
    /\ pc = "find"
    /\ handles \in HandleSets
    /\ bc = 0
    /\ mode \in Modes
    /\ InitProgram

(***************************************************************************)
(* run(): one action per step.  `?` returns the error at once: Fail.       *)
(***************************************************************************)
\* A `?` replaced by a retry: the failed step is run again.
FailAndRetry(status) ==
    /\ pc' = pc
    /\ UNCHANGED <<err, failedStep>>

Fail(status) ==
    /\ pc' = "error"
    /\ err' = status
    /\ failedStep' = pc

\* A run() that goes from ramdisk staging straight to the kernel.
GotoSkippingRegistration(next) ==
    /\ pc' = IF next = "ramdisk_registration" THEN "kernel_staging" ELSE next
    /\ UNCHANGED <<err, failedStep>>

Goto(next) ==
    /\ pc' = next
    /\ UNCHANGED <<err, failedStep>>

\* A `?` that drops the error and goes on.
StepIgnoringError(res, next) == Goto(next)

\* The `?` operator after a call: go on, or return the error from run().
Step(res, next) == IF res = "OK" THEN Goto(next) ELSE Fail(res)

FindPxebcProto ==
    /\ pc = "find"
    /\ \E loc \in LocateOutcomes(handles) :
         LET r == find_pxebc_proto(handles, loc)
         IN /\ bc' = r.proto
            /\ log' = log \o r.ops
            /\ Step(r.res, "start")
    /\ UNCHANGED <<exitStatus, progVars, fwVars, calls>>

StartPxeIfNeeded ==
    /\ pc = "start"
    /\ \E o \in StartOutcomes :
         LET r == start_pxe_if_needed(mode, o)
         IN /\ mode' = r.mode
            /\ log' = log \o r.ops
            /\ Step(r.res, "dhcp")
    /\ UNCHANGED <<exitStatus, bc, progVars, handles, mem, allocated, configTable,
                   image, calls>>

PerformDhcp ==
    /\ pc = "dhcp"
    /\ \E o \in DhcpOutcomes :
         LET r == perform_dhcp(mode, o)
         IN /\ mode' = r.mode
            /\ log' = log \o r.ops
            /\ Step(r.res, "netcfg")
    /\ UNCHANGED <<exitStatus, bc, progVars, handles, mem, allocated, configTable,
                   image, calls>>

GetNetworkConfig ==
    /\ pc = "netcfg"
    /\ ip_addr' = get_network_config(mode).ip_addr
    /\ server_ip' = get_network_config(mode).server_ip
    /\ Goto("kernel_fetch")
    /\ UNCHANGED <<exitStatus, bc, kernel_data, initrd_data, initrd_base, kernel_base,
                   fwVars, log, calls>>

DownloadKernel ==
    /\ pc = "kernel_fetch"
    /\ \E q \in SizeOutcomes :
       \E t \in ReadOutcomes("bzImage", q.size) :
         LET r == download_file("kernel_fetch", "bzImage", KERNEL_MAX_SIZE, q, t)
         IN /\ kernel_data' = r.buf
            /\ log' = log \o r.ops
            /\ Step(r.res, "ramdisk_fetch")
    /\ UNCHANGED <<exitStatus, bc, ip_addr, server_ip, initrd_data, initrd_base,
                   kernel_base, fwVars, calls>>

DownloadInitrd ==
    /\ pc = "ramdisk_fetch"
    /\ \E q \in SizeOutcomes :
       \E t \in ReadOutcomes("initrd", q.size) :
         LET r == download_file("ramdisk_fetch", "initrd", INITRD_MAX_SIZE, q, t)
         IN /\ initrd_data' = r.buf
            /\ log' = log \o r.ops
            /\ Step(r.res, "ramdisk_staging")
    /\ UNCHANGED <<exitStatus, bc, ip_addr, server_ip, kernel_data, initrd_base,
                   kernel_base, fwVars, calls>>

StageInitrd ==
    /\ pc = "ramdisk_staging"
    /\ \E a \in AllocOutcomes(allocated, div_ceil(Len(initrd_data), PAGE_SIZE)) :
         LET r == alloc_pages_and_copy("ramdisk_staging", initrd_data, mem, allocated, a)
         IN /\ initrd_base' = r.addr
            /\ mem' = r.mem
            /\ allocated' = r.allocated
            /\ log' = log \o r.ops
            /\ Step(r.res, "ramdisk_registration")
    /\ UNCHANGED <<exitStatus, bc, ip_addr, server_ip, kernel_data, initrd_data,
                   kernel_base, handles, mode, configTable, image, calls>>

InstallInitrdConfigTable ==
    /\ pc = "ramdisk_registration"
    /\ \E a \in AllocOutcomes(allocated, 1) :
       \E i \in InstallOutcomes :
         LET r == install_initrd_config_table(initrd_base, Len(initrd_data), mem,
                                              allocated, configTable, a, i)
         IN /\ mem' = r.mem
            /\ allocated' = r.allocated
            /\ configTable' = r.table
            /\ log' = log \o r.ops
            /\ Step(r.res, "kernel_staging")
    /\ UNCHANGED <<exitStatus, bc, progVars, handles, mode, image, calls>>

(***************************************************************************)
(* load_and_start_kernel_from_pages, one action per call it makes.         *)
(***************************************************************************)
StageKernel ==
    /\ pc = "kernel_staging"
    /\ \E a \in AllocOutcomes(allocated, div_ceil(Len(kernel_data), PAGE_SIZE)) :
         LET r == alloc_pages_and_copy("kernel_staging", kernel_data, mem, allocated, a)
         IN /\ kernel_base' = r.addr
            /\ mem' = r.mem
            /\ allocated' = r.allocated
            /\ log' = log \o r.ops
            /\ Step(r.res, "image_load")
    /\ UNCHANGED <<exitStatus, bc, ip_addr, server_ip, kernel_data, initrd_data,
                   initrd_base, handles, mode, configTable, image, calls>>

\* load_image from the buffer at kernel_base: the firmware reads the bytes.
load_image(m, base, len, o) ==
    IF o = "OK"
    THEN [loaded |-> TRUE, bytes |-> from_raw_parts(m, base, len), options |-> "NONE"]
    ELSE NoImage

LoadImage ==
    /\ pc = "image_load"
    /\ \E o \in LoadOutcomes :
         /\ image' = load_image(mem, kernel_base, Len(kernel_data), o)
         /\ log' = Append(log, Op("image_load", "load_image", "FromBuffer", kernel_base, o))
         /\ Step(o, "set_options")
    /\ UNCHANGED <<exitStatus, bc, progVars, handles, mode, mem, allocated,
                   configTable, calls>>

\* A setup_kernel_options that opens the image and attaches nothing.
setup_kernel_options_unset(img, o) ==
    [res |-> o, image |-> img,
     ops |-> <<Op("set_options", "open_protocol_exclusive", "LoadedImage", 0, o)>>]

setup_kernel_options(img, o) ==
    LET oop == Op("set_options", "open_protocol_exclusive", "LoadedImage", 0, o)
    IN IF o # "OK"
       THEN [res |-> o, image |-> img, ops |-> <<oop>>]
       ELSE [res |-> "OK", image |-> [img EXCEPT !.options = KERNEL_OPTS],
             ops |-> <<oop, Op("set_options", "set_load_options", KERNEL_OPTS, 0, "OK")>>]

SetupKernelOptions ==
    /\ pc = "set_options"
    /\ \E o \in OpenImageOutcomes :
         LET r == setup_kernel_options(image, o)
         IN /\ image' = r.image
            /\ log' = log \o r.ops
            /\ Step(r.res, "image_start")
    /\ UNCHANGED <<exitStatus, bc, progVars, handles, mode, mem, allocated,
                   configTable, calls>>

\* start_image: where the program is after the call.
start_image(o) ==
    IF o = "NO_RETURN" THEN "started" ELSE IF o = "OK" THEN "run_ok" ELSE "error"

StartImage ==
    /\ pc = "image_start"
    /\ \E o \in StartImageOutcomes :
         /\ log' = Append(log, Op("image_start", "start_image", "kernel", 0, o))
         /\ pc' = start_image(o)
         /\ err' = IF pc' = "error" THEN o ELSE err
         /\ failedStep' = IF pc' = "error" THEN pc ELSE failedStep
    /\ UNCHANGED <<exitStatus, bc, progVars, fwVars, calls>>

(***************************************************************************)
(* main: the two arms of `match run()`.                                    *)
(***************************************************************************)
\* An error_exit that returns without the pause.
error_exit_no_stall(l, status) == [log |-> l, status |-> status]

\* An error_exit that reports a fixed status instead of the one it was given.
error_exit_aborted(l, status) ==
    [log |-> Append(l, Op("exit", "stall", "seconds", STALL_SECS, "OK")), status |-> "ABORTED"]

error_exit(l, status) ==
    [log |-> Append(l, Op("exit", "stall", "seconds", STALL_SECS, "OK")), status |-> status]

MainErr ==
    /\ pc = "error"
    /\ log' = error_exit(log, err).log
    /\ exitStatus' = error_exit(log, err).status
    /\ pc' = "returned"
    /\ UNCHANGED <<err, failedStep, bc, progVars, fwVars, calls>>

\* A main that pauses on the success arm as well.
MainOkWithPause ==
    /\ pc = "run_ok"
    /\ log' = error_exit(log, "SUCCESS").log
    /\ exitStatus' = error_exit(log, "SUCCESS").status
    /\ pc' = "returned"
    /\ UNCHANGED <<err, failedStep, bc, progVars, fwVars, calls>>

MainOk ==
    /\ pc = "run_ok"
    /\ exitStatus' = "SUCCESS"
    /\ pc' = "returned"
    /\ UNCHANGED <<err, failedStep, bc, progVars, fwVars, log, calls>>

Next ==
    \/ FindPxebcProto
    \/ StartPxeIfNeeded
    \/ PerformDhcp
    \/ GetNetworkConfig
    \/ DownloadKernel
    \/ DownloadInitrd
    \/ StageInitrd
    \/ InstallInitrdConfigTable
    \/ StageKernel
    \/ LoadImage
    \/ SetupKernelOptions
    \/ StartImage
    \/ MainErr
    \/ MainOk

Spec == Init /\ [][Next]_vars

\* The program is the only thread and every firmware call returns: a step
\* that can be taken is taken.
SpecLive == Init /\ [][Next]_vars /\ WF_vars(Next)

(***************************************************************************)
(* perform_dhcp on its own: the function is called again and again on one  *)
(* opened BaseCode instance, whatever its mode was at first.  `err` holds  *)
(* what the last call returned.                                            *)
(***************************************************************************)
InitDhcp ==
    /\ pc = "perform_dhcp"
    /\ handles = <<"OK">>
    /\ bc = 1
    /\ mode \in Modes
    /\ InitProgram

CallPerformDhcp ==
    /\ pc = "perform_dhcp"
    /\ calls < MaxCalls
    /\ \E o \in DhcpOutcomes :
         LET r == perform_dhcp(mode, o)
         IN /\ mode' = r.mode
            /\ log' = log \o r.ops
            /\ err' = r.res
    /\ calls' = calls + 1
    /\ UNCHANGED <<pc, failedStep, exitStatus, bc, progVars, handles, mem, allocated,
                   configTable, image>>

NextDhcp == CallPerformDhcp

SpecDhcp == InitDhcp /\ [][NextDhcp]_vars

(***************************************************************************)
(* Properties.                                                             *)
(***************************************************************************)
\* The steps of run() in program order.
Steps == <<"find", "start", "dhcp", "netcfg", "kernel_fetch", "ramdisk_fetch",
           "ramdisk_staging", "ramdisk_registration", "kernel_staging",
           "image_load", "set_options", "image_start">>
StepNames == {Steps[i] : i \in 1..Len(Steps)}
StepIndexOf == [s \in StepNames |-> CHOOSE i \in 1..Len(Steps) : Steps[i] = s]
StepIndex(s) == StepIndexOf[s]

\* The policy cap of each file.
CapOf(filename) == IF filename = "bzImage" THEN KERNEL_MAX_SIZE ELSE INITRD_MAX_SIZE

\* The size query of entry i succeeded and reported more than the cap.
Oversize(i) ==
    /\ log[i].op = "tftp_get_file_size"
    /\ log[i].res = "OK"
    /\ log[i].n > CapOf(log[i].arg)

\* C1: whenever a size query succeeds and reports more than max_size_bytes,
\* download_file returns TooLarge (Status::ABORTED) and no tftp_read_file is
\* ever issued for that file.
C1_TooLargeWithoutTransfer ==
    \A i \in 1..Len(log) :
        Oversize(i) =>
            /\ err = "ABORTED"
            /\ failedStep = log[i].step
            /\ \A j \in 1..Len(log) :
                 log[j].op = "tftp_read_file" => log[j].arg # log[i].arg

C1_Witness ==
    /\ pc = "returned"
    /\ \E i \in 1..Len(log) : Oversize(i) /\ log[i].arg = "initrd"

\* A firmware call whose failure makes its step fail: every failed call but
\* the refused opening of one BaseCode handle, after which the search goes on.
Fatal(e) ==
    /\ e.res \notin {"OK", "NO_RETURN"}
    /\ ~(e.op = "open_protocol_exclusive" /\ e.arg = "BaseCode")

\* C2: once a step of run() has failed no firmware operation of a later step
\* is made: every call in the log belongs to the failed step or an earlier
\* one (or is the exit pause), and nothing but the pause follows a failed call.
C2_HaltsAtFirstFailure ==
    /\ failedStep # "NONE" =>
         LET f == StepIndex(failedStep)
         IN \A i \in 1..Len(log) :
               log[i].step # "exit" => StepIndex(log[i].step) <= f
    /\ \A i \in 1..Len(log) :
         Fatal(log[i]) =>
            /\ failedStep = log[i].step
            /\ \A j \in (i + 1)..Len(log) : log[j].step = "exit"

\* The kernel is reported too large: the ramdisk is never asked for.
C2_Witness ==
    /\ pc = "returned"
    /\ failedStep = "kernel_fetch"
    /\ err = "ABORTED"
    /\ \E i \in 1..Len(log) : Oversize(i) /\ log[i].arg = "bzImage"

\* C4: with no handle exposing the capability find_pxebc_proto returns
\* NOT_FOUND and no later step runs: no firmware call but those of the search
\* and the exit pause is ever made.
C4_NoHandlesNotFound ==
    (Len(handles) = 0 /\ pc # "find") =>
        /\ err = "NOT_FOUND"
        /\ failedStep = "find"
        /\ bc = 0
        /\ pc \in {"error", "returned"}
        /\ \A i \in 1..Len(log) : log[i].step \in {"find", "exit"}
        /\ pc = "returned" => exitStatus = "NOT_FOUND"

C4_Witness == Len(handles) = 0 /\ pc = "returned"

\* The handles whose exclusive acquisition succeeds.
Openable == {h \in 1..Len(handles) : handles[h] = "OK"}
FirstOpenable == CHOOSE h \in Openable : \A g \in Openable : h <= g
IsAttempt(e) == e.op = "open_protocol_exclusive" /\ e.arg = "BaseCode"
Enumerated == Len(log) > 0 /\ log[1].op = "locate_handle_buffer" /\ log[1].res = "OK"
\* The acquisitions the log holds are those of handles 1..k, in that order.
TriedExactly(k) ==
    /\ Len(log) >= k + 1
    /\ \A j \in 1..k : IsAttempt(log[j + 1]) /\ log[j + 1].n = j
    /\ \A i \in (k + 2)..Len(log) : ~IsAttempt(log[i])

\* C5: once the handles are enumerated find_pxebc_proto returns the first
\* handle, in enumeration order, that opens exclusively, having tried exactly
\* the handles up to it (a refused handle does not end the search), and it
\* returns NOT_FOUND exactly when no handle opens (none exists or all refuse).
C5_FirstAcquirableHandle ==
    (pc # "find" /\ Enumerated) =>
        /\ Openable # {} =>
             /\ bc = FirstOpenable
             /\ failedStep # "find"
             /\ TriedExactly(FirstOpenable)
        /\ Openable = {} =>
             /\ bc = 0
             /\ failedStep = "find"
             /\ err = "NOT_FOUND"
             /\ TriedExactly(Len(handles))
        /\ (failedStep = "find" /\ err = "NOT_FOUND") <=> (Openable = {})

\* A refused handle comes first and an acquirable one follows it.
C5_Witness ==
    /\ pc = "start"
    /\ Len(handles) >= 2
    /\ handles[1] # "OK"
    /\ bc = 2

\* The region at base holds data byte for byte and starts on a page boundary.
StagedAt(base, data) ==
    /\ base # 0
    /\ base % PAGE_SIZE = 0
    /\ \A i \in 1..Len(data) : mem[base + i - 1] = data[i]

\* C6: when alloc_pages_and_copy succeeds, the base it returns is a multiple
\* of the page size and the bytes [base, base + len) equal the source buffer.
C6_StagedBytesEqualSource ==
    /\ pc = "ramdisk_registration" => StagedAt(initrd_base, initrd_data)
    /\ pc = "image_load" => StagedAt(kernel_base, kernel_data)

\* A ramdisk that spans more than one page and holds bytes that differ.
C6_Witness ==
    /\ pc = "ramdisk_registration"
    /\ Len(initrd_data) > PAGE_SIZE
    /\ initrd_data[1] # initrd_data[2]
    /\ initrd_data[1] # 0

\* install_configuration_table has succeeded.
Registered ==
    \E i \in 1..Len(log) : log[i].op = "install_configuration_table" /\ log[i].res = "OK"

\* The record the configuration table holds under the ramdisk identifier.
InitrdRecord ==
    LET p == configTable[LINUX_EFI_INITRD_MEDIA_GUID]
    IN [ptr |-> p, base |-> mem[p], size |-> mem[p + 1]]

\* C7: from the moment the ramdisk is registered, in every later state of the
\* run, the configuration table holds under LINUX_EFI_INITRD_MEDIA_GUID a
\* pointer to a record whose base is the staged ramdisk's address and whose
\* size is the ramdisk's length in bytes (not the page-rounded size).
C7_InitrdRecordReadBack ==
    Registered =>
        /\ InitrdRecord.ptr # 0
        /\ InitrdRecord.base = initrd_base
        /\ InitrdRecord.size = Len(initrd_data)

\* At image start, with a ramdisk whose length is no multiple of the page size.
C7_Witness ==
    /\ pc \in {"started", "returned"}
    /\ Count(log, "start_image") = 1
    /\ Registered
    /\ Len(initrd_data) % PAGE_SIZE # 0
    /\ Len(initrd_data) # initrd_base

\* The calls of operation op made by step.
CountIn(step, op) == Cardinality({i \in 1..Len(log) : log[i].step = step /\ log[i].op = op})

\* Every step of run() has succeeded: control went to the kernel, or
\* start_image returned success.
AllSucceeded == pc \in {"started", "run_ok"} \/ exitStatus = "SUCCESS"

\* C8: in a run in which every step succeeds, two regions are staged (ramdisk
\* and kernel), one configuration-table entry is installed, one image is
\* loaded and given the fixed command line, start_image is called once, and
\* once start_image has taken over nothing more happens.
C8_SuccessfulRunShape ==
    /\ AllSucceeded =>
         /\ CountIn("ramdisk_staging", "allocate_pages") = 1
         /\ CountIn("kernel_staging", "allocate_pages") = 1
         /\ initrd_base # 0 /\ kernel_base # 0
         /\ Count(log, "install_configuration_table") = 1
         /\ configTable[LINUX_EFI_INITRD_MEDIA_GUID] # 0
         /\ configTable[OTHER_GUID] = 0
         /\ Count(log, "load_image") = 1
         /\ image.loaded
         /\ image.bytes = kernel_data
         /\ Count(log, "set_load_options") = 1
         /\ image.options = KERNEL_OPTS
         /\ Count(log, "start_image") = 1
         /\ err = "NONE"
    /\ pc = "started" =>
         /\ log[Len(log)].op = "start_image"
         /\ exitStatus = "NONE"
         /\ ~ENABLED Next

\* Control has gone to a kernel of at least one byte.
C8_Witness ==
    /\ pc = "started"
    /\ Len(kernel_data) > 0
    /\ Len(initrd_data) > 0

\* The last firmware call run() made before it returned.
LastCall == IF pc = "returned" /\ err # "NONE" THEN log[Len(log) - 1] ELSE log[Len(log)]

\* C9 as stated: whenever the program exits after a failed firmware
\* operation, the exit status is the status that operation reported.
C9_ExitStatusIsOriginating ==
    (pc = "returned" /\ err # "NONE" /\ Len(log) >= 2 /\ LastCall.res # "OK") =>
        exitStatus = LastCall.res

\* C9: the exit status is the status run() failed with; that is the status
\* the failing firmware operation reported, except that a failed size query
\* exits with NOT_FOUND whatever it reported, that a search in which every
\* handle refuses (or none is enumerated) exits with NOT_FOUND, and that a
\* file over its cap, which no firmware operation reports, exits with ABORTED.
C9_ExitStatusByStep ==
    (pc = "returned" /\ err # "NONE") =>
        /\ exitStatus = err
        /\ Len(log) >= 2
        /\ exitStatus =
             IF LastCall.op = "tftp_get_file_size"
             THEN (IF LastCall.res = "OK" THEN "ABORTED" ELSE "NOT_FOUND")
             ELSE IF LastCall.step = "find" /\ (IsAttempt(LastCall) \/ LastCall.res = "OK")
             THEN "NOT_FOUND"
             ELSE LastCall.res

\* A size query that timed out.
C9_Witness ==
    /\ pc = "returned"
    /\ err # "NONE"
    /\ LastCall.op = "tftp_get_file_size"
    /\ LastCall.res = "TIMEOUT"

\* C10: after a failure main pauses once, for 10 seconds, and then returns the
\* failure status: the pause is the last firmware call, it is the only pause,
\* nothing lies between the failed step's calls and it, and no status is
\* returned before it.
C10_OnePauseBeforeReturn ==
    /\ (pc = "returned" /\ err # "NONE") =>
         /\ Count(log, "stall") = 1
         /\ log[Len(log)].op = "stall"
         /\ log[Len(log)].n = 10
         /\ \A i \in 1..(Len(log) - 1) :
              StepIndex(log[i].step) <= StepIndex(failedStep)
         /\ exitStatus = err
    /\ pc = "error" =>
         /\ Count(log, "stall") = 0
         /\ exitStatus = "NONE"

\* The ramdisk registration failed and the program has returned.
C10_Witness ==
    /\ pc = "returned"
    /\ failedStep = "ramdisk_registration"
    /\ exitStatus = "OUT_OF_RESOURCES"

\* A call of perform_dhcp made with the acknowledgment present returns
\* success, issues no request and leaves the capability's mode as it was.
NoOpWhenAcknowledged ==
    (calls' = calls + 1 /\ mode.dhcp_ack_received) =>
        /\ err' = "OK"
        /\ log' = log
        /\ mode' = mode

\* No DHCP request follows a successful one.
NoRequestAfterAck ==
    \A i \in 1..Len(log) :
        (log[i].op = "dhcp" /\ log[i].res = "OK") => i = Len(log)

\* C3: perform_dhcp called with a DHCP acknowledgment already received
\* returns success without a DHCP request and without changing the
\* capability, and so does every call that follows a successful one.
C3_DhcpIdempotent == [][NoOpWhenAcknowledged]_vars /\ []NoRequestAfterAck

\* The first call's request succeeded and every later call did nothing.
C3_Witness ==
    /\ calls >= 3
    /\ Len(log) = 1
    /\ log[1].op = "dhcp"
    /\ log[1].res = "OK"
    /\ err = "OK"

\* The transfer of the file has succeeded.
Fetched(filename) ==
    \E i \in 1..Len(log) :
        log[i].op = "tftp_read_file" /\ log[i].arg = filename /\ log[i].res = "OK"

\* C11: download_file never returns a partly filled buffer: a buffer it
\* returned holds, over its whole length, the bytes of the remote file.
C11_NoPartialBuffer ==
    /\ Fetched("bzImage") => kernel_data = Contents("bzImage", Len(kernel_data))
    /\ Fetched("initrd") => initrd_data = Contents("initrd", Len(initrd_data))

\* Step made a successful call of op.
Did(step, op) ==
    \E i \in 1..Len(log) : log[i].step = step /\ log[i].op = op /\ log[i].res = "OK"

\* The operation has been called.
Called(op) == \E i \in 1..Len(log) : log[i].op = op

\* C12: the firmware calls of a run are made in the order of the steps
\* (search, start, DHCP, kernel fetch, ramdisk fetch, ramdisk staging,
\* registration, kernel staging, image load, options, image start): no page
\* is allocated before both files are fetched, the program is at a step only
\* when the step before it is done, and start_image is called only with the
\* ramdisk registered and the load options set on the loaded image.
C12_FixedOrder ==
    /\ \A i \in 1..(Len(log) - 1) :
         log[i + 1].step # "exit" =>
            StepIndex(log[i].step) <= StepIndex(log[i + 1].step)
    /\ pc \in StepNames =>
         \A i \in 1..Len(log) : StepIndex(log[i].step) < StepIndex(pc)
    /\ Called("allocate_pages") => Fetched("bzImage") /\ Fetched("initrd")
    /\ pc = "ramdisk_registration" => Did("ramdisk_staging", "allocate_pages")
    /\ pc = "kernel_staging" => Did("ramdisk_registration", "install_configuration_table")
    /\ pc = "image_load" => Did("kernel_staging", "allocate_pages")
    /\ pc = "set_options" => Did("image_load", "load_image")
    /\ pc = "image_start" => Did("set_options", "set_load_options")
    /\ Called("start_image") =>
         /\ Did("ramdisk_registration", "install_configuration_table")
         /\ configTable[LINUX_EFI_INITRD_MEDIA_GUID] # 0
         /\ Did("kernel_staging", "allocate_pages")
         /\ Did("image_load", "load_image")
         /\ Did("set_options", "set_load_options")
         /\ image.loaded /\ image.options = KERNEL_OPTS

\* start_image has been called on an image of at least one byte.
C12_Witness ==
    /\ Count(log, "start_image") = 1
    /\ Len(image.bytes) > 0
    /\ Len(log) >= 13

\* start_pxe_if_needed as run() calls it: a start request, in IPv4 mode, is
\* issued exactly when the capability is not started; a failed request makes
\* run() fail with the request's status.
StartIffNotStarted ==
    pc = "start" /\ pc' # "start" =>
        /\ mode.started =>
             /\ log' = log
             /\ mode' = mode
             /\ pc' = "dhcp"
        /\ ~mode.started =>
             /\ Len(log') = Len(log) + 1
             /\ SubSeq(log', 1, Len(log)) = log
             /\ log'[Len(log')].op = "start"
             /\ log'[Len(log')].arg = "use_ipv6=false"
             /\ \/ log'[Len(log')].res = "OK" /\ pc' = "dhcp" /\ mode'.started
                \/ /\ log'[Len(log')].res # "OK"
                   /\ pc' = "error"
                   /\ err' = log'[Len(log')].res
                   /\ mode' = mode

\* After a failed start request only the exit pause is ever called.
NothingAfterFailedStart ==
    \A i \in 1..Len(log) :
        (log[i].op = "start" /\ log[i].res # "OK") =>
            /\ failedStep = "start"
            /\ \A j \in (i + 1)..Len(log) : log[j].op = "stall"

\* C13: start_pxe_if_needed issues a start request, always in IPv4 mode, if
\* and only if the capability is not started; a failed request's status is
\* returned and neither DHCP nor any later step runs.
C13_StartIfNeeded == [][StartIffNotStarted]_vars /\ []NothingAfterFailedStart

\* The start request failed and the program has returned its status.
C13_Witness ==
    /\ pc = "returned"
    /\ failedStep = "start"
    /\ exitStatus = "DEVICE_ERROR"
    /\ ~mode.started

\* n is the least number of pages that holds len bytes.
LeastPages(n, len) ==
    /\ n >= 0
    /\ n * PAGE_SIZE >= len
    /\ n = 0 \/ (n - 1) * PAGE_SIZE < len

\* The buffer alloc_pages_and_copy was given in step.
StagedData(step) == IF step = "ramdisk_staging" THEN initrd_data ELSE kernel_data

\* div_ceil yields the least sufficient page count for every length that fits
\* in memory.
DivCeilIsLeast == \A len \in 0..MemSize : LeastPages(div_ceil(len, PAGE_SIZE), len)

\* C14: alloc_pages_and_copy asks for ceil(len / PAGE_SIZE) pages, the least
\* n with n * PAGE_SIZE >= len: a multiple of the page size gets no extra
\* page, length 0 gets 0 pages, and the bytes copied lie within the pages
\* allocated.
C14_PageCountIsCeiling ==
    /\ \A i \in 1..Len(log) :
         (log[i].op = "allocate_pages" /\ log[i].step # "ramdisk_registration") =>
            LET len == Len(StagedData(log[i].step))
            IN /\ LeastPages(log[i].n, len)
               /\ len = 0 => log[i].n = 0
               /\ len % PAGE_SIZE = 0 => log[i].n * PAGE_SIZE = len
    /\ \A a \in DOMAIN mem : mem[a] # Uninit => (a \div PAGE_SIZE) \in allocated
    /\ DivCeilIsLeast

\* A ramdisk of exactly one page and a kernel of no byte, both staged.
C14_Witness ==
    /\ Did("ramdisk_staging", "allocate_pages")
    /\ Len(initrd_data) = PAGE_SIZE
    /\ Did("kernel_staging", "allocate_pages")
    /\ Len(kernel_data) = 0

\* The pages the bytes [base, base + len) lie in.
PagesTouched(base, len) ==
    {q \in 0..MemPages : q * PAGE_SIZE < base + len /\ (q + 1) * PAGE_SIZE > base}

\* The three regions of a run, as far as they have been allocated.
InitrdRegion ==
    IF Did("ramdisk_staging", "allocate_pages")
    THEN PagesTouched(initrd_base, Len(initrd_data)) ELSE {}
KernelRegion ==
    IF Did("kernel_staging", "allocate_pages")
    THEN PagesTouched(kernel_base, Len(kernel_data)) ELSE {}
InfoRegion ==
    {log[i].n \div PAGE_SIZE : i \in OpsOf(log, "install_configuration_table")}

\* C15: staged memory is untouched by later allocations: every allocation is
\* a LOADER_DATA allocation, nothing is freed (the regions stay allocated),
\* the ramdisk region, the descriptor page and the kernel region are pairwise
\* disjoint, and from its staging on the ramdisk region holds the downloaded
\* ramdisk bytes.
C15_StagedMemoryUntouched ==
    /\ \A i \in 1..Len(log) :
         /\ log[i].op = "allocate_pages" => log[i].arg = "LOADER_DATA"
         /\ log[i].op # "free_pages"
    /\ LET ramdisk == InitrdRegion
           info == InfoRegion
           kernel == KernelRegion
       IN /\ ramdisk \cup info \cup kernel \subseteq allocated
          /\ ramdisk \cap info = {}
          /\ ramdisk \cap kernel = {}
          /\ info \cap kernel = {}
    /\ Did("ramdisk_staging", "allocate_pages") => StagedAt(initrd_base, initrd_data)

\* All three regions exist, none of them empty, and start_image was called.
C15_Witness ==
    /\ Count(log, "start_image") = 1
    /\ InitrdRegion # {}
    /\ InfoRegion # {}
    /\ KernelRegion # {}

\* The buffer run() holds for the file.
BufferOf(filename) == IF filename = "bzImage" THEN kernel_data ELSE initrd_data

\* C16: download_file reports a failed size query as NOT_FOUND whatever the
\* query's status, having allocated no buffer and issued no transfer, and
\* reports a failed transfer with the transfer's own status.
C16_FailureByStep ==
    \A i \in 1..Len(log) :
        /\ (log[i].op = "tftp_get_file_size" /\ log[i].res # "OK") =>
              /\ err = "NOT_FOUND"
              /\ failedStep = log[i].step
              /\ BufferOf(log[i].arg) = <<>>
              /\ \A j \in 1..Len(log) :
                   log[j].op = "tftp_read_file" => log[j].arg # log[i].arg
        /\ (log[i].op = "tftp_read_file" /\ log[i].res # "OK") =>
              /\ err = log[i].res
              /\ failedStep = log[i].step
              /\ BufferOf(log[i].arg) = <<>>

\* The ramdisk's transfer failed after its size query had succeeded.
C16_Witness ==
    /\ pc = "returned"
    /\ failedStep = "ramdisk_fetch"
    /\ exitStatus = "TFTP_ERROR"
    /\ Fetched("bzImage")

\* The transfers asked for the file.
ReadsOf(filename) ==
    {j \in 1..Len(log) : log[j].op = "tftp_read_file" /\ log[j].arg = filename}

\* The buffer is a prefix of the file followed by zeros only.
ZeroFilled(filename) ==
    LET buffer == BufferOf(filename)
    IN \E k \in 0..Len(buffer) :
          LET sent == Contents(filename, k)
          IN \A i \in 1..Len(buffer) : buffer[i] = IF i <= k THEN sent[i] ELSE 0

\* C17: for every reported size up to max_size_bytes, the cap included,
\* download_file makes one transfer, into a buffer whose length is exactly
\* the reported size (the cast to usize loses nothing) and which was zero
\* before the transfer wrote to it.
C17_BufferOfReportedSize ==
    \A i \in 1..Len(log) :
        (log[i].op = "tftp_get_file_size" /\ log[i].res = "OK"
                                          /\ log[i].n <= CapOf(log[i].arg)) =>
            /\ ReadsOf(log[i].arg) = {i + 1}
            /\ log[i + 1].n = log[i].n
            /\ log[i + 1].res = "OK" =>
                 /\ Len(BufferOf(log[i].arg)) = log[i].n
                 /\ ZeroFilled(log[i].arg)

\* Both files are reported at exactly their caps and both are transferred.
C17_Witness ==
    /\ Fetched("bzImage") /\ Len(kernel_data) = KERNEL_MAX_SIZE
    /\ Fetched("initrd") /\ Len(initrd_data) = INITRD_MAX_SIZE

\* Control went to the kernel, or main returned to its caller.
Terminal == pc \in {"started", "returned"}

\* What makes two firmware calls the same operation: the file for the size
\* query and the transfer, the handle for an acquisition, the operation alone
\* for the rest.
CallKey(e) ==
    IF e.op \in {"tftp_get_file_size", "tftp_read_file"} THEN <<e.op, e.arg, 0>>
    ELSE IF e.op = "open_protocol_exclusive" THEN <<e.op, e.arg, e.n>>
    ELSE <<e.op, "", 0>>

\* No step repeats a firmware operation: start, DHCP, install, load and image
\* start are called at most once, the size query and the transfer at most
\* once per file, and each enumerated handle is tried at most once.  (Pages
\* are allocated once per region.)
NoRetry ==
    \A j \in (Len(log) + 1)..Len(log') :
        log'[j].op # "allocate_pages" =>
            \A i \in 1..(j - 1) : CallKey(log'[i]) # CallKey(log'[j])

\* C18: with every firmware call returning, every run ends, with control in
\* the kernel or with main returned, and on the way no operation is retried.
C18_TerminatesWithoutRetry == <>Terminal /\ [][NoRetry]_vars

\* A run that ended after its search had tried and been refused two handles.
C18_Witness ==
    /\ Terminal
    /\ Len(handles) >= 2
    /\ \A h \in 1..Len(handles) : handles[h] # "OK"
    /\ Len(log) = Len(handles) + 2


(***************************************************************************)
(* C19: start_image returning success.                                     *)
(***************************************************************************)
\* start_image was called and handed control back with success.
StartReturnedOk ==
    \E i \in 1..Len(log) : log[i].op = "start_image" /\ log[i].res = "OK"

\* C19: if start_image returns successfully, run() reports success (it has
\* not failed and is on the success arm of main), main returns SUCCESS, and
\* no pause is made; a pause is made on the error path only, so a run that
\* paused had failed and a run that returned SUCCESS had start_image return.
C19_SuccessReturnsWithoutPause ==
    /\ StartReturnedOk =>
         /\ pc \in {"run_ok", "returned"}
         /\ err = "NONE" /\ failedStep = "NONE"
         /\ pc = "returned" => exitStatus = "SUCCESS"
         /\ ~Called("stall")
         /\ log[Len(log)].op = "start_image"
    /\ Called("stall") => (err # "NONE" /\ pc = "returned")
    /\ exitStatus = "SUCCESS" => StartReturnedOk

\* start_image handed control back with success and main has returned.
C19_Witness ==
    /\ pc = "returned"
    /\ StartReturnedOk
    /\ exitStatus = "SUCCESS"


(***************************************************************************)
(* C20: failures are not rolled back.                                      *)
(***************************************************************************)
\* The steps of run() after the ramdisk registration.
LaterSteps == {"kernel_staging", "image_load", "set_options", "image_start"}

RECURSIVE PagesGranted(_)
\* The number of pages the firmware granted in the first i calls of the run.
PagesGranted(i) ==
    IF i = 0 THEN 0
    ELSE PagesGranted(i - 1)
         + (IF log[i].op = "allocate_pages" /\ log[i].res = "OK" THEN log[i].n ELSE 0)

\* Every region the run allocated is still allocated.
NothingReleased ==
    /\ InitrdRegion \cup InfoRegion \cup KernelRegion \subseteq allocated
    /\ Cardinality(allocated) = PagesGranted(Len(log))

\* The address install_configuration_table was given.
InstalledPtr ==
    log[CHOOSE i \in OpsOf(log, "install_configuration_table") : TRUE].n

\* C20: when the program has returned the failure status of a step after the
\* ramdisk registration, the configuration table still holds under the
\* ramdisk identifier the pointer that was installed, the record there is the
\* one written (staged base, ramdisk length), and every region allocated is
\* still allocated; when it has returned after a failed install, the staged
\* ramdisk region and the descriptor page are still allocated.
C20_NoRollback ==
    /\ (pc = "returned" /\ failedStep \in LaterSteps) =>
         /\ exitStatus = err
         /\ InitrdRecord = [ptr |-> InstalledPtr, base |-> initrd_base,
                            size |-> Len(initrd_data)]
         /\ InstalledPtr # 0
         /\ NothingReleased
    /\ (pc = "returned" /\ failedStep = "ramdisk_registration"
          /\ Count(log, "install_configuration_table") = 1) =>
         /\ exitStatus = err
         /\ InfoRegion # {}
         /\ NothingReleased

\* The program returned the failure of the image load, with a ramdisk and a
\* kernel that each fill a region.
C20_Witness ==
    /\ pc = "returned"
    /\ failedStep = "image_load"
    /\ exitStatus = "LOAD_ERROR"
    /\ InitrdRegion # {}
    /\ KernelRegion # {}

====
